---- MODULE Spec2Model ----
(***************************************************************************)
(* Model of pyreqsearch.py: the ImportsFinder syntax-tree visitor and the  *)
(* breadth-first resolver requirements_info.                                *)
(*                                                                         *)
(* Python strings are sequences of tokens: an identifier is one token, the *)
(* separator "." is one token, a file extension is one token.  The string  *)
(* operations of the code (startswith, in, split, join, rsplit, endswith)  *)
(* are computed on these sequences.  None is the one-token sequence NoneV, *)
(* which is no identifier.                                                 *)
(***************************************************************************)
EXTENDS Integers, Sequences, FiniteSets, TLC

VARIABLES
    src,          \* the file system: path -> what open/read/ast.parse give
    pc,           \* "loop" | "done" | "raised"
    run,          \* which call of requirements_info this is (1 or 2)
    visited,      \* line 95: set of paths
    modules,      \* line 96: dependent -> list of qualified names
    queue,        \* line 97: FIFO of entries
    cur,          \* line 100: the entry whose file is being processed
    imports,      \* line 108: what is left of the for loop of line 109
    finder,       \* the ImportsFinder of the last find_imports call
    classified,   \* history: the find_imports calls of this run, in order
    calls,        \* history: the find_spec calls of this run, in order
    first,        \* the graph the first call returned
    walk          \* the visit calls of a search that are not yet finished

vars == <<src, pc, run, visited, modules, queue, cur, imports, finder,
          classified, calls, first, walk>>

-----------------------------------------------------------------------------
(* Bounds *)

MaxStmts == 2

\* The number of nodes of a tree that is walked step by step
MaxNodes == 3

-----------------------------------------------------------------------------
(* Strings *)

DOT == "."
NoneV == <<"<None>">>
EmptyStr == <<>>

\* "a.b.c" from <<"a", "b", "c">>
RECURSIVE Q(_)
Q(parts) ==
    IF Len(parts) = 0 THEN <<>>
    ELSE IF Len(parts) = 1 THEN <<parts[1]>>
    ELSE <<parts[1], DOT>> \o Q(Tail(parts))

\* "." * n
RECURSIVE Dots(_)
Dots(n) == IF n = 0 THEN <<>> ELSE <<DOT>> \o Dots(n - 1)

\* s.startswith(".")
StartsWithDot(s) == Len(s) > 0 /\ s[1] = DOT

\* "." in s
ContainsDot(s) == \E i \in 1..Len(s) : s[i] = DOT

\* s.endswith(suffix), suffix one token
EndsWith(s, suffix) == Len(s) > 0 /\ s[Len(s)] = suffix

\* s.split("."): the list of the pieces between the separators
RECURSIVE SplitFrom(_, _, _)
SplitFrom(s, i, piece) ==
    IF i > Len(s) THEN <<piece>>
    ELSE IF s[i] = DOT THEN <<piece>> \o SplitFrom(s, i + 1, <<>>)
    ELSE SplitFrom(s, i + 1, Append(piece, s[i]))

Split(s) == SplitFrom(s, 1, <<>>)

\* ".".join(pieces)
RECURSIVE Join(_)
Join(pieces) ==
    IF Len(pieces) = 0 THEN <<>>
    ELSE IF Len(pieces) = 1 THEN pieces[1]
    ELSE pieces[1] \o <<DOT>> \o Join(Tail(pieces))

Front(s) == SubSeq(s, 1, Len(s) - 1)
Last(s) == s[Len(s)]

\* s.rsplit(".", maxsplit)
RECURSIVE RSplit(_, _)
RSplit(s, maxsplit) ==
    LET pieces == Split(s)
    IN  IF maxsplit = 0 \/ Len(pieces) = 1 THEN <<s>>
        ELSE Append(RSplit(Join(Front(pieces)), maxsplit - 1), Last(pieces))

\* s.rpartition(".")[0]
RPartitionHead(s) == IF ContainsDot(s) THEN Join(Front(Split(s))) ELSE <<>>

Range(s) == {s[i] : i \in 1..Len(s)}

-----------------------------------------------------------------------------
(* The installed modules: what importlib.util.find_spec answers from.      *)

S(id) == <<id>>

PY == ".py"
PYD == ".pyd"
BuiltIn == <<"built-in">>

MainPy == <<"main", PY>>
LibPy == <<"lib", PY>>
ExtPyd == <<"ext", PYD>>
PkgInit == <<"pkg/__init__", PY>>
PkgB == <<"pkg/b", PY>>
SubInit == <<"pkg/sub/__init__", PY>>
SubA == <<"pkg/sub/a", PY>>
SubB == <<"pkg/sub/b", PY>>
BadPy == <<"bad", PY>>

Mod(name, origin, ispkg) == [name |-> name, origin |-> origin, is_package |-> ispkg]

\* sys is built in (its origin is the string "built-in"), ns is a namespace
\* package (its origin is None), ext is a compiled extension.
ModuleTable ==
    { Mod(S("sys"), BuiltIn, FALSE),
      Mod(S("ns"), NoneV, TRUE),
      Mod(S("main"), MainPy, FALSE),
      Mod(S("lib"), LibPy, FALSE),
      Mod(S("ext"), ExtPyd, FALSE),
      Mod(S("bad"), BadPy, FALSE),
      Mod(Q(<<"pkg">>), PkgInit, TRUE),
      Mod(Q(<<"pkg", "b">>), PkgB, FALSE),
      Mod(Q(<<"pkg", "sub">>), SubInit, TRUE),
      Mod(Q(<<"pkg", "sub", "a">>), SubA, FALSE),
      Mod(Q(<<"pkg", "sub", "b">>), SubB, FALSE) }

Installed(fullname) == \E m \in ModuleTable : m.name = fullname
Lookup(fullname) == CHOOSE m \in ModuleTable : m.name = fullname
IsPackage(fullname) == Installed(fullname) /\ Lookup(fullname).is_package

SourcePaths == {m.origin : m \in ModuleTable} \ {BuiltIn, NoneV}

\* A find_spec outcome: a ModuleSpec, None, or an exception.
Found(name, origin) == [kind |-> "spec", name |-> name, origin |-> origin]
NotFound == [kind |-> "None", name |-> NoneV, origin |-> NoneV]
Raises(exc) == [kind |-> exc, name |-> NoneV, origin |-> NoneV]

\* The number of leading "." of a name
RECURSIVE Level(_)
Level(name) == IF StartsWithDot(name) THEN 1 + Level(Tail(name)) ELSE 0

\* importlib._bootstrap._resolve_name(name, package, level): a pair
\* <<ok, fullname>>, ok FALSE for "attempted relative import beyond
\* top-level package"
ResolveName(name, package, level) ==
    LET bits == RSplit(package, level - 1)
        base == bits[1]
    IN  IF Len(bits) < level THEN <<FALSE, <<>>>>
        ELSE <<TRUE, IF Len(name) > 0 THEN base \o <<DOT>> \o name ELSE base>>

\* __import__(parent_name) followed by parent.__path__: every ancestor of the
\* name has to be an installed package
RECURSIVE ParentsImportable(_)
ParentsImportable(parent_name) ==
    IF Len(parent_name) = 0 THEN TRUE
    ELSE /\ IsPackage(parent_name)
         /\ ParentsImportable(RPartitionHead(parent_name))

FindAbsolute(fullname) ==
    IF ~ParentsImportable(RPartitionHead(fullname)) THEN Raises("ModuleNotFoundError")
    ELSE IF Installed(fullname) THEN Found(fullname, Lookup(fullname).origin)
    ELSE NotFound

\* importlib.util.find_spec(name, package)
find_spec(name, package) ==
    IF StartsWithDot(name)
    THEN IF package = NoneV \/ package = EmptyStr THEN Raises("ImportError")
         ELSE LET r == ResolveName(SubSeq(name, Level(name) + 1, Len(name)),
                                   package, Level(name))
              IN  IF r[1] THEN FindAbsolute(r[2]) ELSE Raises("ImportError")
    ELSE FindAbsolute(name)


-----------------------------------------------------------------------------
(* Syntax trees (what ast.parse returns) and the ImportsFinder visitor.    *)

\* One node: its kind, the alias names of an import, the level and module of
\* a from-import, and its child statements in document order.
Node(kind, names, level, module, body) ==
    [kind |-> kind, names |-> names, level |-> level, module |-> module,
     body |-> body]

Import(names) == Node("Import", names, 0, NoneV, <<>>)
ImportFrom(level, module, names) == Node("ImportFrom", names, level, module, <<>>)
If(body) == Node("If", <<>>, 0, NoneV, body)
FunctionDef(body) == Node("FunctionDef", <<>>, 0, NoneV, body)
AsyncFunctionDef(body) == Node("AsyncFunctionDef", <<>>, 0, NoneV, body)
For(body) == Node("For", <<>>, 0, NoneV, body)
Module(body) == Node("Module", <<>>, 0, NoneV, body)

\* ImportsFinder.__init__
NewFinder(package) ==
    [package |-> package,
     imports |-> <<>>,
     direct_imports |-> <<>>,
     conditional_imports |-> <<>>,
     functions_imports |-> <<>>,
     in_conditional |-> <<>>,
     in_function |-> <<>>]

\* A Python list is true when it is not empty
Truthy(list) == Len(list) > 0

\* Lines 39 and 54 testing nothing: every import is filed as direct
IsDirect_Always(self) == TRUE

\* The direct_imports test of lines 39 and 54
IsDirect(self) == ~(Truthy(self.in_conditional) \/ Truthy(self.in_function))

\* The body of the loops with line 37 (line 52) a copy of line 35 (line 50):
\* functions_imports is filled on the in_conditional test
Record_CopiedTest(self, info) ==
    [self EXCEPT
        !.imports = Append(@, info),
        !.conditional_imports =
            IF Truthy(self.in_conditional) THEN Append(@, info) ELSE @,
        !.functions_imports =
            IF Truthy(self.in_conditional) THEN Append(@, info) ELSE @,
        !.direct_imports = IF IsDirect(self) THEN Append(@, info) ELSE @]

\* The body of the loops of visit_Import and visit_ImportFrom: file info
Record(self, info) ==
    [self EXCEPT
        !.imports = Append(@, info),
        !.conditional_imports =
            IF Truthy(self.in_conditional) THEN Append(@, info) ELSE @,
        !.functions_imports =
            IF Truthy(self.in_function) THEN Append(@, info) ELSE @,
        !.direct_imports = IF IsDirect(self) THEN Append(@, info) ELSE @]

\* The source string visit_ImportFrom builds
FromSource(node) ==
    Dots(node.level) \o
    (IF node.module # NoneV /\ node.module # EmptyStr THEN node.module ELSE <<>>)

RECURSIVE RecordAll(_, _)
RecordAll(self, infos) ==
    IF Len(infos) = 0 THEN self
    ELSE RecordAll(Record(self, Head(infos)), Tail(infos))

visit_Import(self, node) ==
    RecordAll(self, [i \in 1..Len(node.names) |-> <<node.names[i], NoneV>>])

visit_ImportFrom(self, node) ==
    RecordAll(self, [i \in 1..Len(node.names) |-> <<FromSource(node), node.names[i]>>])

Push(list) == Append(list, NoneV)
Pop(list) == SubSeq(list, 1, Len(list) - 1)

RECURSIVE visit(_, _)
RECURSIVE generic_visit_from(_, _, _)

generic_visit_from(self, node, i) ==
    IF i > Len(node.body) THEN self
    ELSE generic_visit_from(visit(self, node.body[i]), node, i + 1)

generic_visit(self, node) == generic_visit_from(self, node, 1)

visit_If(self, node) ==
    LET entered == [self EXCEPT !.in_conditional = Push(@)]
        result == generic_visit(entered, node)
    IN  [result EXCEPT !.in_conditional = Pop(@)]

visit_FunctionDef(self, node) ==
    LET entered == [self EXCEPT !.in_function = Push(@)]
        result == generic_visit(entered, node)
    IN  [result EXCEPT !.in_function = Pop(@)]

visit_AsyncFunctionDef(self, node) ==
    LET entered == [self EXCEPT !.in_function = Push(@)]
        result == generic_visit(entered, node)
    IN  [result EXCEPT !.in_function = Pop(@)]

\* ast.NodeVisitor.visit: dispatch on the node's class
visit(self, node) ==
    CASE node.kind = "Import" -> generic_visit(visit_Import(self, node), node)
      [] node.kind = "ImportFrom" -> generic_visit(visit_ImportFrom(self, node), node)
      [] node.kind = "If" -> visit_If(self, node)
      [] node.kind = "FunctionDef" -> visit_FunctionDef(self, node)
      [] node.kind = "AsyncFunctionDef" -> visit_AsyncFunctionDef(self, node)
      [] OTHER -> generic_visit(self, node)

\* ImportsFinder.search
search(self, tree) == visit(self, tree)

\* visit, one step at a time.  What the visit_ method of the node does before
\* it calls generic_visit
Prologue(self, node) ==
    CASE node.kind = "Import" -> visit_Import(self, node)
      [] node.kind = "ImportFrom" -> visit_ImportFrom(self, node)
      [] node.kind = "If" -> [self EXCEPT !.in_conditional = Push(@)]
      [] node.kind = "FunctionDef" -> [self EXCEPT !.in_function = Push(@)]
      [] node.kind = "AsyncFunctionDef" -> [self EXCEPT !.in_function = Push(@)]
      [] OTHER -> self

\* Lines 61, 67 and 73 left out: nothing is popped
Epilogue_NoPop(self, node) == self

\* What the visit_ method of the node does after generic_visit has returned
Epilogue(self, node) ==
    CASE node.kind = "If" -> [self EXCEPT !.in_conditional = Pop(@)]
      [] node.kind = "FunctionDef" -> [self EXCEPT !.in_function = Pop(@)]
      [] node.kind = "AsyncFunctionDef" -> [self EXCEPT !.in_function = Pop(@)]
      [] OTHER -> self

\* One visit call that has not returned: its node and the child generic_visit
\* visits next (0: the visit_ method has not started)
Frame(node, i) == [node |-> node, i |-> i]

\* What open/read/ast.parse give for a file
Parsed(tree) == [status |-> "ok", tree |-> tree]
Unreadable(exc) == [status |-> exc, tree |-> Module(<<>>)]

\* Lines 85-86: the finder find_imports builds and runs
FinderOf(package, file) == search(NewFinder(package), file.tree)

\* find_imports returning every import found (line 87) for the direct ones
find_imports_All(pyfile, package, file) ==
    IF EndsWith(pyfile, PYD) THEN <<>>
    ELSE FinderOf(package, file).imports

\* find_imports: the list it returns
find_imports(pyfile, package, file) ==
    IF EndsWith(pyfile, PYD) THEN <<>>
    ELSE FinderOf(package, file).direct_imports

\* Lines 82-84 inside a try that returns no imports: nothing is raised
find_imports_raises_Never(pyfile, file) == "ok"

\* Lines 78-81 left out: a compiled extension is opened and parsed as well
find_imports_raises_NoPydTest(pyfile, file) == file.status

\* Does find_imports raise?  The exception, or "ok".
find_imports_raises(pyfile, file) ==
    IF EndsWith(pyfile, PYD) THEN "ok" ELSE file.status


-----------------------------------------------------------------------------
(* The files of the universe: for every path, the texts it may hold.       *)

SeqsUpTo(set, n) == UNION {[1..k -> set] : k \in 0..n}

EntryFile == MainPy

\* The statements the entry file is written with: plain imports of a
\* built-in module, of modules with source, of a name that is not installed,
\* of a dotted name, of a namespace package and a compiled extension, and
\* imports inside an if, inside an if in an async def, and inside a for loop
MainStmts ==
    { Import(<<S("sys")>>),
      Import(<<S("lib")>>),
      Import(<<S("pkg")>>),
      Import(<<S("nope")>>),
      Import(<<Q(<<"pkg", "sub", "a">>)>>),
      Import(<<S("ns"), S("ext")>>),
      If(<<Import(<<S("lib")>>)>>),
      AsyncFunctionDef(<<If(<<Import(<<S("pkg")>>)>>)>>),
      For(<<Import(<<S("pkg")>>)>>) }

\* The texts of the other files
LibTexts ==
    { <<Import(<<S("main")>>), Import(<<S("pkg")>>)>>,
      <<ImportFrom(1, NoneV, <<S("x"), S("y")>>),
        If(<<Import(<<S("pkg")>>)>>),
        Import(<<S("sys")>>)>>,
      <<ImportFrom(2, NoneV, <<S("y")>>)>> }

PkgInitTexts ==
    { <<ImportFrom(1, NoneV, <<S("sub"), S("b")>>), Import(<<S("lib")>>)>>,
      <<ImportFrom(1, Q(<<"sub", "a">>), <<S("x")>>),
        ImportFrom(1, S("b"), <<S("y")>>)>> }

PkgBTexts ==
    { <<ImportFrom(1, NoneV, <<S("sub")>>),
        FunctionDef(<<ImportFrom(1, NoneV, <<S("b")>>)>>)>>,
      <<Import(<<S("sys"), S("bad")>>)>> }

SubInitTexts ==
    { <<ImportFrom(1, NoneV, <<S("a")>>)>>,
      <<ImportFrom(1, Q(<<"sub", "b">>), <<S("z")>>)>> }

SubATexts ==
    { <<ImportFrom(1, NoneV, <<S("b")>>)>>,
      <<ImportFrom(2, NoneV, <<S("c")>>)>> }

SubBTexts ==
    { <<ImportFrom(1, S("nope"), <<S("w")>>), Import(<<S("sys")>>)>> }

TextsOf(path) ==
    CASE path = MainPy -> SeqsUpTo(MainStmts, MaxStmts)
      [] path = LibPy -> LibTexts
      [] path = PkgInit -> PkgInitTexts
      [] path = PkgB -> PkgBTexts
      [] path = SubInit -> SubInitTexts
      [] path = SubA -> SubATexts
      [] path = SubB -> SubBTexts
      [] OTHER -> {}

\* What reading and parsing path may give: one of its texts; SyntaxError or
\* an OSError for bad.py, and also for the entry file; FileNotFoundError for
\* a path that is no file
FileChoices(path) ==
    IF path \notin SourcePaths THEN {Unreadable("FileNotFoundError")}
    ELSE {Parsed(Module(body)) : body \in TextsOf(path)}
         \cup (IF path \in {BadPy, EntryFile}
               THEN {Unreadable("SyntaxError"), Unreadable("OSError")} ELSE {})

\* The trees that are walked step by step: imports of one and of two names,
\* under if, def, async def and for statements, nested in every way
RECURSIVE BodiesOfSize(_)
RECURSIVE StmtsOfSize(_)

\* The statements of n nodes
StmtsOfSize(n) ==
    LET inner == BodiesOfSize(n - 1)
    IN  (IF n = 1
         THEN {Import(<<S("a"), S("b")>>), ImportFrom(1, NoneV, <<S("c")>>)}
         ELSE {})
        \cup {If(b) : b \in inner}
        \cup {FunctionDef(b) : b \in inner}
        \cup {AsyncFunctionDef(b) : b \in inner}
        \cup {For(b) : b \in inner}

\* The statement lists of n nodes in all
BodiesOfSize(n) ==
    IF n = 0 THEN {<<>>}
    ELSE UNION {{<<t>> \o r : t \in StmtsOfSize(k), r \in BodiesOfSize(n - k)} :
                   k \in 1..n}

Bodies(n) == UNION {BodiesOfSize(k) : k \in 0..n}

WalkedTrees == {Module(body) : body \in Bodies(MaxNodes)}

-----
(* requirements_info                                                        *)

Entry(dependent, dependent_package, path) ==
    [dependent |-> dependent, dependent_package |-> dependent_package,
     path |-> path]

MainName == S("__main__")

\* Lines 111-122 with the tests of lines 111 and 114 in the other order
ResolveTarget_PrefixFirst(source, name, dependent_package) ==
    IF StartsWithDot(source) THEN <<source, dependent_package>>
    ELSE IF source = <<DOT>> THEN <<<<DOT>> \o name, dependent_package>>
    ELSE IF ContainsDot(source)
         THEN <<Last(Split(source)), Join(Front(Split(source)))>>
    ELSE <<source, NoneV>>

\* Lines 111-122: the name and the package handed to find_spec
ResolveTarget(source, name, dependent_package) ==
    IF source = <<DOT>> THEN <<<<DOT>> \o name, dependent_package>>
    ELSE IF StartsWithDot(source) THEN <<source, dependent_package>>
    ELSE IF ContainsDot(source)
         THEN <<Last(Split(source)), Join(Front(Split(source)))>>
    ELSE <<source, NoneV>>

\* Lines 123-126 without the try: nothing is swallowed
Swallowed_Nothing(exc) == FALSE

\* Lines 123-126: the exceptions of find_spec the loop swallows
Swallowed(exc) == exc = "ModuleNotFoundError"

\* Lines 103-104 alone: the no-source test of line 101 left out
Skipped_NoMarkerTest(path, seen) == path \in seen

\* Lines 101-102 alone: the visited test of line 103 left out
Skipped_NoVisitedTest(path, seen) == path \in {NoneV, BuiltIn}

\* Lines 101-104: is the dequeued path skipped?
Skipped(path, seen) == path \in {NoneV, BuiltIn} \/ path \in seen

\* Line 106 left out: the path is not recorded
MarkVisited_Forgets(seen, path) == seen

\* Line 106
MarkVisited(seen, path) == seen \cup {path}

\* Lines 129-131 without the test of line 130
AddDependency_NoTest(mods, dependent, qualname) ==
    LET withKey == IF dependent \in DOMAIN mods THEN mods
                   ELSE mods @@ (dependent :> <<>>)
    IN  [withKey EXCEPT ![dependent] = Append(@, qualname)]

\* Lines 129-131 with insert(0, qualname) written for append
AddDependency_Prepends(mods, dependent, qualname) ==
    LET withKey == IF dependent \in DOMAIN mods THEN mods
                   ELSE mods @@ (dependent :> <<>>)
    IN  IF qualname \in Range(withKey[dependent]) THEN withKey
        ELSE [withKey EXCEPT ![dependent] = <<qualname>> \o @]

\* Lines 129-131
AddDependency(mods, dependent, qualname) ==
    LET withKey == IF dependent \in DOMAIN mods THEN mods
                   ELSE mods @@ (dependent :> <<>>)
    IN  IF qualname \in Range(withKey[dependent]) THEN withKey
        ELSE [withKey EXCEPT ![dependent] = Append(@, qualname)]

\* Line 132 without the marker: the origin as the spec gives it
ModulePath_Raw(origin) == origin

\* Line 132
ModulePath(origin) == IF origin \in {NoneV, EmptyStr} THEN BuiltIn ELSE origin

\* Lines 133-136 with the name as written for the resolved name
NextEntry_AsWritten(source, qualname, dependent, module_path) ==
    IF StartsWithDot(source) THEN Entry(source, dependent, module_path)
    ELSE Entry(source, source, module_path)

\* Lines 133-136 without the test of line 133: always the branch of line 136
NextEntry_Absolute(source, qualname, dependent, module_path) ==
    Entry(qualname, qualname, module_path)

\* Lines 133-136
NextEntry(source, qualname, dependent, module_path) ==
    IF StartsWithDot(source) THEN Entry(qualname, dependent, module_path)
    ELSE Entry(qualname, qualname, module_path)

\* Lines 134 and 136 on a stack: the entry goes to the front
Put_Front(q, entry) == <<entry>> \o q

\* Lines 134 and 136: queue.put
Put(q, entry) == Append(q, entry)

NoEntry == Entry(NoneV, NoneV, NoneV)
NoFinder == NewFinder(NoneV)

\* Lines 95-98 with the visited set kept from the call before
Start_KeepsVisited(pyfile) ==
    /\ pc' = "loop"
    /\ visited' = visited
    /\ modules' = <<>>
    /\ queue' = <<Entry(MainName, NoneV, pyfile)>>
    /\ cur' = NoEntry
    /\ imports' = <<>>
    /\ finder' = NoFinder
    /\ classified' = <<>>
    /\ calls' = <<>>

\* Lines 95-98
Start(pyfile) ==
    /\ pc' = "loop"
    /\ visited' = {}
    /\ modules' = <<>>
    /\ queue' = <<Entry(MainName, NoneV, pyfile)>>
    /\ cur' = NoEntry
    /\ imports' = <<>>
    /\ finder' = NoFinder
    /\ classified' = <<>>
    /\ calls' = <<>>

\* The arguments requirements_info is called with: the entry file, or None
PyFiles == {EntryFile, NoneV}

\* The argument of the run: the text of the entry file is drawn at the start
\* when there is an entry file
PyFile == IF EntryFile \in DOMAIN src THEN EntryFile ELSE NoneV

Init ==
    /\ \E pyfile \in PyFiles :
         /\ src \in (IF pyfile = NoneV THEN {<<>>}
                     ELSE [{pyfile} -> FileChoices(pyfile)])
         /\ queue = <<Entry(MainName, NoneV, pyfile)>>
    /\ pc = "loop"
    /\ run = 1
    /\ visited = {}
    /\ modules = <<>>
    /\ cur = NoEntry
    /\ imports = <<>>
    /\ finder = NoFinder
    /\ classified = <<>>
    /\ calls = <<>>
    /\ first = <<>>
    /\ walk = <<>>

InLoopHead == pc = "loop" /\ imports = <<>>

\* Lines 99-104 with break written for continue: a skipped entry ends the loop
DequeueSkip_Breaks ==
    /\ InLoopHead
    /\ queue # <<>>
    /\ Skipped(Head(queue).path, visited)
    /\ queue' = Tail(queue)
    /\ cur' = Head(queue)
    /\ pc' = "done"
    /\ first' = IF run = 1 THEN modules ELSE first
    /\ UNCHANGED <<src, run, visited, modules, imports, finder,
                   classified, calls, walk>>

\* Lines 99-104 with line 106 moved before the tests: the skipped path is
\* marked visited
DequeueSkip_Marks ==
    /\ InLoopHead
    /\ queue # <<>>
    /\ Skipped(Head(queue).path, visited)
    /\ queue' = Tail(queue)
    /\ cur' = Head(queue)
    /\ visited' = MarkVisited(visited, Head(queue).path)
    /\ UNCHANGED <<src, pc, run, modules, imports, finder,
                   classified, calls, first, walk>>

\* Lines 99-104: an entry is dequeued and skipped
DequeueSkip ==
    /\ InLoopHead
    /\ queue # <<>>
    /\ Skipped(Head(queue).path, visited)
    /\ queue' = Tail(queue)
    /\ cur' = Head(queue)
    /\ UNCHANGED <<src, pc, run, visited, modules, imports, finder,
                   classified, calls, first, walk>>

\* Lines 99-108: an entry is dequeued, its path marked visited and its file
\* classified
DequeueClassify ==
    /\ InLoopHead
    /\ queue # <<>>
    /\ LET e == Head(queue)
       IN  /\ ~Skipped(e.path, visited)
           /\ queue' = Tail(queue)
           /\ cur' = e
           /\ visited' = MarkVisited(visited, e.path)
           /\ classified' = Append(classified, e)
           /\ \E file \in (IF e.path \in DOMAIN src THEN {src[e.path]}
                           ELSE IF EndsWith(e.path, PYD)
                                THEN {Unreadable("UnicodeDecodeError")}
                           ELSE FileChoices(e.path)) :
                /\ src' = IF e.path \in DOMAIN src \/ EndsWith(e.path, PYD)
                          THEN src ELSE src @@ (e.path :> file)
                /\ IF find_imports_raises(e.path, file) = "ok"
                   THEN /\ imports' = find_imports(e.path, e.dependent_package, file)
                        /\ finder' = IF EndsWith(e.path, PYD) THEN finder
                                      ELSE FinderOf(e.dependent_package, file)
                        /\ pc' = pc
                   ELSE /\ pc' = "raised"
                        /\ UNCHANGED <<imports, finder>>
    /\ UNCHANGED <<run, modules, calls, first, walk>>

Call(e, source, name, target, result, put) ==
    [file |-> e.path, dependent |-> e.dependent, source |-> source,
     name |-> name, module |-> target[1], package |-> target[2],
     result |-> result, put |-> put]

\* Lines 109-136: one iteration of the for loop
ProcessImport ==
    /\ pc = "loop"
    /\ imports # <<>>
    /\ LET source == Head(imports)[1]
           name == Head(imports)[2]
           target == ResolveTarget(source, name, cur.dependent_package)
           spec == find_spec(target[1], target[2])
           entry == NextEntry(source, spec.name, cur.dependent, ModulePath(spec.origin))
       IN  /\ imports' = Tail(imports)
           /\ IF spec.kind = "spec"
              THEN /\ modules' = AddDependency(modules, cur.dependent, spec.name)
                   /\ queue' = Put(queue, entry)
                   /\ calls' = Append(calls, Call(cur, source, name, target, spec, <<entry>>))
                   /\ pc' = pc
              ELSE /\ calls' = Append(calls, Call(cur, source, name, target, spec, <<>>))
                   /\ pc' = IF spec.kind = "None" \/ Swallowed(spec.kind)
                            THEN pc ELSE "raised"
                   /\ UNCHANGED <<modules, queue>>
    /\ UNCHANGED <<src, run, visited, cur, finder, classified, first, walk>>

\* Lines 99 and 137: the queue is empty, the graph is returned
Return ==
    /\ InLoopHead
    /\ queue = <<>>
    /\ pc' = "done"
    /\ first' = IF run = 1 THEN modules ELSE first
    /\ UNCHANGED <<src, run, visited, modules, queue, cur, imports, finder,
                   classified, calls, walk>>

\* requirements_info is called again with the same argument, in the same
\* universe
CallAgain ==
    /\ pc = "done"
    /\ run = 1
    /\ run' = 2
    /\ Start(PyFile)
    /\ UNCHANGED <<src, first, walk>>

Next ==
    \/ DequeueSkip
    \/ DequeueClassify
    \/ ProcessImport
    \/ Return
    \/ CallAgain

Spec == Init /\ [][Next]_vars

-----
(* ImportsFinder.search, one visit step at a time                           *)

\* Lines 85-86: a finder is built and search is called on the tree of the
\* entry file
InitFinder ==
    /\ src \in [{EntryFile} -> {Parsed(tree) : tree \in WalkedTrees}]
    /\ pc = "search"
    /\ run = 1
    /\ visited = {EntryFile}
    /\ modules = <<>>
    /\ queue = <<>>
    /\ cur = Entry(MainName, NoneV, EntryFile)
    /\ imports = <<>>
    /\ finder = NewFinder(NoneV)
    /\ classified = <<Entry(MainName, NoneV, EntryFile)>>
    /\ calls = <<>>
    /\ first = <<>>
    /\ walk = <<Frame(src[EntryFile].tree, 0)>>

Top == walk[Len(walk)]

\* visit dispatches to the visit_ method of the node, which runs up to its
\* call of generic_visit
VisitNode ==
    /\ pc = "search"
    /\ walk # <<>>
    /\ Top.i = 0
    /\ finder' = Prologue(finder, Top.node)
    /\ walk' = [walk EXCEPT ![Len(walk)].i = 1]
    /\ UNCHANGED <<src, pc, run, visited, modules, queue, cur, imports,
                   classified, calls, first>>

\* generic_visit calls visit on the next child
VisitChild ==
    /\ pc = "search"
    /\ walk # <<>>
    /\ Top.i \in 1..Len(Top.node.body)
    /\ walk' = Append([walk EXCEPT ![Len(walk)].i = @ + 1],
                      Frame(Top.node.body[Top.i], 0))
    /\ UNCHANGED <<src, pc, run, visited, modules, queue, cur, imports, finder,
                   classified, calls, first>>

\* generic_visit has returned: the visit_ method runs to its end and returns
ReturnFromNode ==
    /\ pc = "search"
    /\ walk # <<>>
    /\ Top.i > Len(Top.node.body)
    /\ finder' = Epilogue(finder, Top.node)
    /\ walk' = SubSeq(walk, 1, Len(walk) - 1)
    /\ pc' = IF Len(walk) = 1 THEN "searched" ELSE pc
    /\ UNCHANGED <<src, run, visited, modules, queue, cur, imports,
                   classified, calls, first>>

NextFinder ==
    \/ VisitNode
    \/ VisitChild
    \/ ReturnFromNode

SpecFinder == InitFinder /\ [][NextFinder]_vars


-----------------------------------------------------------------------------
(* Definitions the properties are stated with                               *)

NoDup(s) == \A i, j \in 1..Len(s) : i # j => s[i] # s[j]

Count(s, x) == Cardinality({i \in 1..Len(s) : s[i] = x})

Max(a, b) == IF a >= b THEN a ELSE b

\* The import records of a statement, as written
RecordsOf(node) ==
    IF node.kind = "Import"
    THEN [i \in 1..Len(node.names) |-> <<node.names[i], NoneV>>]
    ELSE IF node.kind = "ImportFrom"
    THEN [i \in 1..Len(node.names) |->
            <<Dots(node.level) \o (IF node.module = NoneV THEN <<>> ELSE node.module),
              node.names[i]>>]
    ELSE <<>>

Scoping == {"If", "FunctionDef", "AsyncFunctionDef"}

\* The records written outside every if and every function body, and the
\* records written inside one, read off the tree
RECURSIVE TopLevelAt(_, _)
TopLevelAt(nodes, i) ==
    IF i > Len(nodes) THEN <<>>
    ELSE LET n == nodes[i]
         IN  (IF n.kind \in Scoping THEN <<>>
              ELSE RecordsOf(n) \o TopLevelAt(n.body, 1))
             \o TopLevelAt(nodes, i + 1)

TopLevelRecords(tree) == TopLevelAt(tree.body, 1)

RECURSIVE AllAt(_, _)
AllAt(nodes, i) ==
    IF i > Len(nodes) THEN <<>>
    ELSE RecordsOf(nodes[i]) \o AllAt(nodes[i].body, 1) \o AllAt(nodes, i + 1)

AllRecords(tree) == AllAt(tree.body, 1)

NestedOnly(tree) == Range(AllRecords(tree)) \ Range(TopLevelRecords(tree))

\* The files classified so far that were read
ReadEntries == {classified[i] : i \in {j \in 1..Len(classified) :
                                        classified[j].path \in DOMAIN src}}

ClassifiedPaths == [i \in 1..Len(classified) |-> classified[i].path]

-----------------------------------------------------------------------------
(* C1 *)

\* C1: during one run no file is passed to find_imports more than once: the
\* classified paths are pairwise different and are exactly the visited set,
\* and no step of the run takes a path out of the visited set.
C1_ClassifiedOnce ==
    /\ [](NoDup(ClassifiedPaths) /\ Range(ClassifiedPaths) = visited)
    /\ [][run' = run => visited \subseteq visited']_vars

\* A circular import came back to the entry file and was skipped
C1_Witness ==
    /\ cur.path = EntryFile
    /\ cur.dependent # MainName
    /\ Len(classified) >= 2
    /\ EntryFile \in visited


-----------------------------------------------------------------------------
(* C2 *)

\* The measure of a run: the source files not yet visited, the imports left
\* of the file being processed, the entries in the queue
Rank == <<Cardinality(SourcePaths \ visited), Len(imports), Len(queue)>>

LexLess(a, b) ==
    \/ a[1] < b[1]
    \/ a[1] = b[1] /\ a[2] < b[2]
    \/ a[1] = b[1] /\ a[2] = b[2] /\ a[3] < b[3]

\* C2: the loop never runs forever: every step of a run that does not end it
\* strictly decreases the measure (files not yet visited, imports left of the
\* current file, queue length) in lexicographic order, a run at the head of
\* the while loop can take a step (with imports left, the for loop has no
\* other guard), a run that returns does so with an empty queue, and a run
\* ends otherwise only by an exception of find_imports or an ImportError of
\* find_spec.
C2_Terminates ==
    /\ [][(run' = run /\ pc' = "loop") => LexLess(Rank', Rank)]_vars
    /\ [](InLoopHead => ENABLED (DequeueSkip \/ DequeueClassify \/ Return))
    /\ [](pc = "done" => queue = <<>> /\ imports = <<>>)
    /\ [](pc = "raised" =>
            \/ find_imports_raises(cur.path, src[cur.path]) # "ok"
            \/ Len(calls) > 0 /\ Last(calls).result.kind = "ImportError")

\* A run over modules that import each other in a cycle has returned
C2_Witness ==
    /\ pc = "done"
    /\ \E i, j \in 1..Len(calls) :
          /\ calls[i].result.origin = LibPy
          /\ calls[j].file = LibPy
          /\ calls[j].result.origin = EntryFile

-----------------------------------------------------------------------------
(* C3 *)

\* What the direct import rec of a file processed under entry e resolves to
Resolution(e, rec) ==
    LET target == ResolveTarget(rec[1], rec[2], e.dependent_package)
    IN  find_spec(target[1], target[2])

HasSource(spec) == spec.kind = "spec" /\ spec.origin \notin {NoneV, EmptyStr, BuiltIn}

\* C3: when requirements_info has returned, every direct import of every
\* classified file that resolves to a module with a source file has that file
\* in the visited set.
C3_FullyExplored ==
    pc = "done" =>
        \A e \in ReadEntries :
            \A rec \in Range(TopLevelRecords(src[e.path].tree)) :
                HasSource(Resolution(e, rec)) => Resolution(e, rec).origin \in visited

\* A run has returned after following imports three files deep
C3_Witness ==
    /\ pc = "done"
    /\ {EntryFile, PkgInit, SubInit, SubB} \subseteq visited

-----------------------------------------------------------------------------
(* C4 *)

\* C4: only direct imports drive resolution: every find_spec call is for a
\* record written outside every if and function body of the file being
\* processed, every edge of the graph and every queue entry but the seed comes
\* from such a call; so a record written only inside an if or a function body
\* causes no call, no edge and no queue entry.
C4_OnlyDirectImportsResolve ==
    /\ \A i \in 1..Len(calls) :
          <<calls[i].source, calls[i].name>>
              \in Range(TopLevelRecords(src[calls[i].file].tree))
    /\ \A d \in DOMAIN modules : \A q \in Range(modules[d]) :
          \E i \in 1..Len(calls) : calls[i].dependent = d /\ calls[i].result.name = q
    /\ \A k \in 1..Len(queue) :
          \/ queue[k] = Entry(MainName, NoneV, PyFile)
          \/ \E i \in 1..Len(calls) : calls[i].put = <<queue[k]>>

\* The entry file imports lib only inside an if or a function body, and the
\* run has returned
C4_Witness ==
    /\ pc = "done"
    /\ run = 1
    /\ PyFile = EntryFile
    /\ <<S("lib"), NoneV>> \in NestedOnly(src[EntryFile].tree)

-----------------------------------------------------------------------------
(* C5 *)

NoSourceCalls ==
    {i \in 1..Len(calls) :
        calls[i].result.kind = "spec" /\ ~HasSource(calls[i].result)}

\* C5 as claimed: for a module resolved without source the edge is recorded,
\* no queue entry is enqueued and the module is never classified.
C5_NoEntryForBuiltIn ==
    \A i \in NoSourceCalls :
        /\ calls[i].result.name \in Range(modules[calls[i].dependent])
        /\ calls[i].put = <<>>
        /\ \A k \in 1..Len(classified) : classified[k].dependent # calls[i].result.name

\* C5 as amended: for a module resolved without source the edge is recorded
\* and one queue entry is enqueued for it, whose path is the "built-in"
\* marker; that entry is skipped when dequeued: the marker is never visited
\* and the module is never classified.
C5_BuiltInEdgeAndSkip ==
    /\ \A i \in NoSourceCalls :
          /\ calls[i].dependent \in DOMAIN modules
          /\ calls[i].result.name \in Range(modules[calls[i].dependent])
          /\ Len(calls[i].put) = 1
          /\ calls[i].put[1].path = BuiltIn
          /\ calls[i].put[1].dependent = calls[i].result.name
          /\ \A k \in 1..Len(classified) : classified[k].dependent # calls[i].result.name
    /\ visited \cap {BuiltIn, NoneV} = {}

\* The entries of a built-in module and of a namespace package were dequeued
\* and the run has returned
C5_Witness ==
    /\ pc = "done"
    /\ \E i, j \in NoSourceCalls :
          /\ calls[i].result.origin = BuiltIn
          /\ calls[j].result.origin = NoneV


-----------------------------------------------------------------------------
(* C6 *)

\* What find_spec answers for the import the for loop is at
HeadResult == Resolution(cur, Head(imports))

HeadNotFound ==
    /\ pc = "loop"
    /\ imports # <<>>
    /\ HeadResult.kind \in {"None", "ModuleNotFoundError"}

\* C6: a direct import that find_spec cannot find (it returns None or raises
\* ModuleNotFoundError) adds no edge and no queue entry and raises nothing:
\* the step leaves the graph and the queue as they were and the loop goes on
\* with the remaining imports of the file.
C6_NotFoundSkipped ==
    [][HeadNotFound =>
        /\ modules' = modules
        /\ queue' = queue
        /\ pc' = "loop"
        /\ imports' = Tail(imports)
        /\ Last(calls').put = <<>>]_vars

\* In one file an import raised ModuleNotFoundError and a later import of the
\* same file was resolved all the same; elsewhere find_spec returned None
C6_Witness ==
    /\ \E i, j \in 1..Len(calls) :
          /\ i < j
          /\ calls[i].result.kind = "ModuleNotFoundError"
          /\ calls[j].file = calls[i].file
    /\ \E i \in 1..Len(calls) : calls[i].result.kind = "None"
    /\ pc = "done"

-----------------------------------------------------------------------------
(* C7 *)

\* C7: the relative imports of pkg/sub/a.py (module pkg.sub.a) are resolved
\* against its package: find_spec is called with package pkg.sub for
\* "from . import b", and "from .. import c" resolves in package pkg.
C7_RelativeContext ==
    \A i \in 1..Len(calls) :
        (calls[i].file = SubA /\ StartsWithDot(calls[i].source)) =>
            /\ calls[i].package = Q(<<"pkg", "sub">>)
            /\ calls[i].source = <<DOT, DOT>> =>
                  (calls[i].result.kind = "spec" /\ calls[i].result.name = S("pkg"))

-----------------------------------------------------------------------------
(* C8 *)

\* The qualified names resolved for dependent d, in call order
RECURSIVE ResolvedFor(_, _)
ResolvedFor(d, n) ==
    IF n = 0 THEN <<>>
    ELSE IF calls[n].dependent = d /\ calls[n].result.kind = "spec"
         THEN Append(ResolvedFor(d, n - 1), calls[n].result.name)
         ELSE ResolvedFor(d, n - 1)

\* s without the repetitions: every value at its first place
RECURSIVE FirstSeen(_)
FirstSeen(s) ==
    IF Len(s) = 0 THEN <<>>
    ELSE LET front == FirstSeen(Front(s))
         IN  IF Last(s) \in Range(front) THEN front ELSE Append(front, Last(s))

\* C8: in every state of a run each dependent's list holds no qualified name
\* twice, and lists the dependencies in the order in which they were first
\* resolved for that dependent.
C8_DedupFirstSeen ==
    \A d \in DOMAIN modules :
        /\ NoDup(modules[d])
        /\ modules[d] = FirstSeen(ResolvedFor(d, Len(calls)))

\* One dependent resolved the same module twice, and another module too
C8_Witness ==
    \E i, j, k \in 1..Len(calls) :
        /\ i < j
        /\ calls[i].result.kind = "spec"
        /\ calls[j].dependent = calls[i].dependent
        /\ calls[j].result = calls[i].result
        /\ calls[k].dependent = calls[i].dependent
        /\ calls[k].result.kind = "spec"
        /\ calls[k].result # calls[i].result

-----------------------------------------------------------------------------
(* C9 *)

Disjoint(s, t) == Range(s) \cap Range(t) = {}

\* C9 as claimed: as (source, name) values, direct_imports shares no record
\* with conditional_imports and none with functions_imports.
C9_DirectDisjointByValue ==
    /\ Disjoint(finder.direct_imports, finder.conditional_imports)
    /\ Disjoint(finder.direct_imports, finder.functions_imports)

\* C9 as amended: every occurrence of an import is filed either in
\* direct_imports or in conditional_imports / functions_imports, never in
\* both: a record is in imports at least as often as in direct_imports plus
\* the larger of its counts in the two other buckets (and at most as often as
\* in the three together), so a record the file writes once is never both
\* direct and conditional or function-scoped.
C9_DirectExclusivePerOccurrence ==
    \A r \in Range(finder.imports) \cup Range(finder.direct_imports)
             \cup Range(finder.conditional_imports)
             \cup Range(finder.functions_imports) :
        LET all == Count(finder.imports, r)
            direct == Count(finder.direct_imports, r)
            cond == Count(finder.conditional_imports, r)
            func == Count(finder.functions_imports, r)
        IN  /\ direct + Max(cond, func) <= all
            /\ all <= direct + cond + func
            /\ all = 1 => ~(direct > 0 /\ (cond > 0 \/ func > 0))

\* A file was classified in which one import is both conditional and
\* function-scoped, beside a direct import
C9_Witness ==
    /\ ~Disjoint(finder.conditional_imports, finder.functions_imports)
    /\ Len(finder.direct_imports) > 0

-----------------------------------------------------------------------------
(* C10 *)

\* C10: the second call of requirements_info on the same entry file, in the
\* same universe, returns the graph the first call returned: the same keys
\* and the same lists in the same order.
C10_SameGraphTwice ==
    (pc = "done" /\ run = 2) => modules = first

\* The second call has returned a graph of several dependents
C10_Witness ==
    /\ pc = "done"
    /\ run = 2
    /\ Cardinality(DOMAIN modules) >= 3
    /\ \E d \in DOMAIN modules : Len(modules[d]) >= 2


-----------------------------------------------------------------------------
(* C11 *)

\* The step classified a file whose reading or parsing fails
ClassifiedFailing ==
    /\ classified' # classified
    /\ cur'.path \in DOMAIN src'
    /\ src'[cur'.path].status # "ok"

\* C11: when reading or parsing a dequeued file fails, the failure propagates
\* out of requirements_info: the step ends the run as raised with the graph
\* as it was, and nothing happens after it: no entry is dequeued, no import
\* is resolved, no graph is returned.
C11_FailureAborts ==
    /\ [][ClassifiedFailing => (pc' = "raised" /\ modules' = modules
                                /\ imports' = imports /\ first' = first)]_vars
    /\ [][pc # "raised"]_vars

\* A run was aborted by bad.py with entries still in the queue
C11_Witness ==
    /\ pc = "raised"
    /\ cur.path = BadPy
    /\ src[BadPy].status = "SyntaxError"
    /\ queue # <<>>


-----------------------------------------------------------------------------
(* C12 *)

\* The head of the queue is a compiled extension that is about to be
\* classified
ExtensionAtHead ==
    /\ InLoopHead
    /\ queue # <<>>
    /\ EndsWith(Head(queue).path, PYD)
    /\ ~Skipped(Head(queue).path, visited)

\* C12: a compiled extension yields no import records when it is dequeued:
\* the step marks its path visited, leaves the for loop nothing to do, adds no
\* edge and no queue entry and raises nothing; no find_spec call is ever made
\* for the file.
C12_ExtensionYieldsNothing ==
    /\ [][ExtensionAtHead =>
            /\ visited' = visited \cup {Head(queue).path}
            /\ imports' = <<>>
            /\ modules' = modules
            /\ queue' = Tail(queue)
            /\ pc' = "loop"]_vars
    /\ [](\A i \in 1..Len(calls) : ~EndsWith(calls[i].file, PYD))

\* The compiled extension was dequeued and classified, and the run returned
C12_Witness ==
    /\ pc = "done"
    /\ ExtPyd \in visited
    /\ \E i \in 1..Len(classified) : classified[i].path = ExtPyd


-----------------------------------------------------------------------------
(* C13 *)

\* The index of the classification of the file at path
ClassifiedAt(path) ==
    CHOOSE j \in 1..Len(classified) : classified[j].path = path

\* The first call of find_spec whose queue entry is the one classified i-th
EnqueuedBy(i) ==
    CHOOSE k \in 1..Len(calls) :
        /\ calls[k].put = <<classified[i]>>
        /\ \A l \in 1..(k - 1) : calls[l].put # <<classified[i]>>

\* The import distance of the file classified i-th: 0 for the entry file,
\* otherwise one more than that of the file whose processing enqueued the
\* entry that was classified
RECURSIVE Distance(_)
Distance(i) ==
    IF classified[i].dependent = MainName /\ classified[i].path = EntryFile
    THEN 0
    ELSE 1 + Distance(ClassifiedAt(calls[EnqueuedBy(i)].file))

\* C13: the traversal is breadth-first: the queue is first-in first-out (a
\* step of a run takes the head off, appends one entry at the back, or leaves
\* the queue alone, and the entry dequeued is the head), and the files are
\* classified in non-decreasing order of import distance from the entry file.
C13_BreadthFirst ==
    /\ [][run' = run =>
            \/ queue' = queue
            \/ queue # <<>> /\ queue' = Tail(queue) /\ cur' = Head(queue)
            \/ /\ Len(queue') = Len(queue) + 1
               /\ SubSeq(queue', 1, Len(queue)) = queue]_vars
    /\ [](\A i, j \in 1..Len(classified) :
            i < j => Distance(i) <= Distance(j))

\* Two files at distance 1 and then one at distance 2 were classified
C13_Witness ==
    /\ pc = "done"
    /\ \E i, j, k \in 1..Len(classified) :
         /\ i < j /\ j < k
         /\ Distance(i) = 1 /\ Distance(j) = 1 /\ Distance(k) = 2


-----------------------------------------------------------------------------
(* C14 *)

\* The position of the last separator of s, 0 when there is none
LastDot(s) ==
    IF \E i \in 1..Len(s) : s[i] = DOT
    THEN CHOOSE i \in 1..Len(s) :
             s[i] = DOT /\ \A j \in (i + 1)..Len(s) : s[j] # DOT
    ELSE 0

\* The package the file of a call was classified with
CurrentPackage(c) == classified[ClassifiedAt(c.file)].dependent_package

\* The four ordered cases, stated on positions of the source
FourCases(source, name, package) ==
    CASE Len(source) = 1 /\ source[1] = DOT ->
             <<<<DOT>> \o name, package>>
      [] Len(source) > 0 /\ source[1] = DOT /\ Len(source) > 1 ->
             <<source, package>>
      [] Len(source) > 0 /\ source[1] # DOT /\ LastDot(source) > 0 ->
             <<SubSeq(source, LastDot(source) + 1, Len(source)),
               SubSeq(source, 1, LastDot(source) - 1)>>
      [] OTHER -> <<source, NoneV>>

\* C14: for every direct import handed to find_spec, the module and the
\* package are given by four ordered cases: the source is exactly "." and a
\* name is there: ("." + name, current package); the source otherwise starts
\* with ".": (source, current package); an absolute source with a separator:
\* (last component, the components before it joined by "."); a bare name:
\* (source, None).
C14_FourCases ==
    \A i \in 1..Len(calls) :
        <<calls[i].module, calls[i].package>>
            = FourCases(calls[i].source, calls[i].name, CurrentPackage(calls[i]))

\* One run handed find_spec an import of each of the four cases
C14_Witness ==
    /\ \E i \in 1..Len(calls) :
         calls[i].source = <<DOT>> /\ calls[i].name # NoneV
    /\ \E i \in 1..Len(calls) :
         StartsWithDot(calls[i].source) /\ Len(calls[i].source) > 1
    /\ \E i \in 1..Len(calls) :
         ~StartsWithDot(calls[i].source) /\ ContainsDot(calls[i].source)
    /\ \E i \in 1..Len(calls) :
         ~StartsWithDot(calls[i].source) /\ ~ContainsDot(calls[i].source)


-----------------------------------------------------------------------------
(* C15 *)

\* The context the entry of a call carries: the resolved name, with the
\* dependent of the file being processed for a relative source and the
\* resolved name again for an absolute one; and no entry without a spec
ContextOfEntry(c) ==
    IF c.result.kind = "spec"
    THEN /\ Len(c.put) = 1
         /\ c.put[1].dependent = c.result.name
         /\ c.put[1].dependent_package =
                (IF c.source[1] = DOT THEN c.dependent ELSE c.result.name)
    ELSE c.put = <<>>

\* C15 as stated: the entry enqueued for a resolved import carries (resolved
\* qualname, dependent of the file being processed) for a relative source and
\* (resolved qualname, resolved qualname) for an absolute one, and its path is
\* the origin of the resolved module.
C15_PathIsOrigin ==
    \A i \in 1..Len(calls) :
        /\ ContextOfEntry(calls[i])
        /\ calls[i].put # <<>> => calls[i].put[1].path = calls[i].result.origin

\* C15 amended: the context is as stated; the path is the origin of the
\* resolved module when it has one, and the no-source marker "built-in" when
\* the origin is absent or empty.
C15_PathIsOriginOrMarker ==
    \A i \in 1..Len(calls) :
        /\ ContextOfEntry(calls[i])
        /\ calls[i].put # <<>> =>
             calls[i].put[1].path =
                 (IF calls[i].result.origin \in {NoneV, EmptyStr}
                  THEN BuiltIn ELSE calls[i].result.origin)

\* One run enqueued an entry for a relative import, one for an absolute
\* import and one for a module without origin
C15_Witness ==
    /\ \E i \in 1..Len(calls) :
         calls[i].put # <<>> /\ StartsWithDot(calls[i].source)
         /\ calls[i].put[1].dependent_package # calls[i].put[1].dependent
    /\ \E i \in 1..Len(calls) :
         calls[i].put # <<>> /\ ~StartsWithDot(calls[i].source)
         /\ calls[i].result.origin \in SourcePaths
    /\ \E i \in 1..Len(calls) :
         calls[i].put # <<>> /\ calls[i].result.origin = NoneV


-----------------------------------------------------------------------------
(* C16 *)

\* The import occurrences of a tree in document order, each with its records
\* and the number of if statements and of function definitions around it
RECURSIVE OccurrencesAt(_, _, _, _)
OccurrencesAt(nodes, i, ifs, defs) ==
    IF i > Len(nodes) THEN <<>>
    ELSE LET n == nodes[i]
             own == [k \in 1..Len(RecordsOf(n)) |->
                        [info |-> RecordsOf(n)[k], ifs |-> ifs, defs |-> defs]]
             inner == OccurrencesAt(n.body, 1,
                          ifs + (IF n.kind = "If" THEN 1 ELSE 0),
                          defs + (IF n.kind \in {"FunctionDef", "AsyncFunctionDef"}
                                  THEN 1 ELSE 0))
         IN  own \o inner \o OccurrencesAt(nodes, i + 1, ifs, defs)

Occurrences(tree) == OccurrencesAt(tree.body, 1, 0, 0)

Infos(occ) == [k \in 1..Len(occ) |-> occ[k].info]

UnderIf(o) == o.ifs > 0
UnderDef(o) == o.defs > 0
UnderNeither(o) == o.ifs = 0 /\ o.defs = 0

\* s can be had from t by leaving elements out
RECURSIVE IsSubsequence(_, _)
IsSubsequence(s, t) ==
    IF s = <<>> THEN TRUE
    ELSE IF t = <<>> THEN FALSE
    ELSE IF Head(s) = Head(t) THEN IsSubsequence(Tail(s), Tail(t))
    ELSE IsSubsequence(s, Tail(t))

\* visit is about to run visit_Import or visit_ImportFrom
ImportVisited ==
    /\ pc = "search"
    /\ walk # <<>>
    /\ Top.i = 0
    /\ Top.node.kind \in {"Import", "ImportFrom"}

WalkedTree == src[EntryFile].tree

\* C16: every import occurrence of a walked tree is appended to imports, and
\* also to conditional_imports iff the conditional depth is above zero at that
\* point, to functions_imports iff the function depth is above zero, and to
\* direct_imports iff both are zero; no other step of the walk touches a
\* bucket.  So at the end of the walk imports holds every occurrence in
\* document order, the three buckets hold the occurrences under an if, under a
\* def, and under neither (one under both is in both of the first two and not
\* in direct_imports), and the finder is the one search computes.  Each bucket
\* is at every point a subsequence of imports, in the same order.
C16_Buckets ==
    /\ [][IF ImportVisited
          THEN LET recs == RecordsOf(Top.node)
                   cond == Len(finder.in_conditional) > 0
                   func == Len(finder.in_function) > 0
               IN  /\ finder'.imports = finder.imports \o recs
                   /\ finder'.conditional_imports =
                          finder.conditional_imports \o (IF cond THEN recs ELSE <<>>)
                   /\ finder'.functions_imports =
                          finder.functions_imports \o (IF func THEN recs ELSE <<>>)
                   /\ finder'.direct_imports =
                          finder.direct_imports
                              \o (IF ~cond /\ ~func THEN recs ELSE <<>>)
          ELSE /\ finder'.imports = finder.imports
               /\ finder'.conditional_imports = finder.conditional_imports
               /\ finder'.functions_imports = finder.functions_imports
               /\ finder'.direct_imports = finder.direct_imports]_vars
    /\ [](/\ IsSubsequence(finder.conditional_imports, finder.imports)
          /\ IsSubsequence(finder.functions_imports, finder.imports)
          /\ IsSubsequence(finder.direct_imports, finder.imports))
    /\ [](pc = "searched" =>
            LET occ == Occurrences(WalkedTree)
            IN  /\ finder.imports = Infos(occ)
                /\ finder.conditional_imports = Infos(SelectSeq(occ, UnderIf))
                /\ finder.functions_imports = Infos(SelectSeq(occ, UnderDef))
                /\ finder.direct_imports = Infos(SelectSeq(occ, UnderNeither))
                /\ finder = search(NewFinder(NoneV), WalkedTree))

\* The walk of a tree with an import of two names under both an if and a def
\* has ended: the two records are in both buckets and not direct
C16_Witness ==
    /\ pc = "searched"
    /\ Len(finder.imports) = 2
    /\ finder.conditional_imports = finder.imports
    /\ finder.functions_imports = finder.imports
    /\ finder.direct_imports = <<>>

-----------------------------------------------------------------------------
(* C17 *)

\* The number of visit calls in progress, past their first step, for a node
\* of one of the kinds
Enclosing(kinds) ==
    Cardinality({k \in 1..Len(walk) :
                    walk[k].i >= 1 /\ walk[k].node.kind \in kinds})

\* C17: at every point of the walk the conditional depth is the number of
\* if statements the walk is inside of and the function depth the number of
\* def and async def statements it is inside of, however they are nested; a
\* step for a node of any other kind changes neither depth; and both depths
\* are zero when the walk has ended.
C17_Depths ==
    /\ [](/\ Len(finder.in_conditional) = Enclosing({"If"})
          /\ Len(finder.in_function)
                 = Enclosing({"FunctionDef", "AsyncFunctionDef"}))
    /\ [][(walk # <<>> /\ Top.node.kind \notin Scoping) =>
            /\ finder'.in_conditional = finder.in_conditional
            /\ finder'.in_function = finder.in_function]_vars
    /\ [](pc = "searched" =>
            finder.in_conditional = <<>> /\ finder.in_function = <<>>)

\* The walk is inside two if statements and one function definition
C17_Witness ==
    /\ pc = "search"
    /\ Len(finder.in_conditional) = 2
    /\ Len(finder.in_function) = 1

-----------------------------------------------------------------------------
(* C18 *)

IsPrefix(s, t) == Len(s) <= Len(t) /\ SubSeq(t, 1, Len(s)) = s

\* C18: the graph only grows during one run: across every step of a run every
\* key stays a key and its list in the next state has its list before as a
\* prefix, so no key and no edge is removed or changed.
C18_GraphGrows ==
    [][run' = run =>
         \A d \in DOMAIN modules :
             d \in DOMAIN modules' /\ IsPrefix(modules[d], modules'[d])]_vars

\* A dependent with one dependency got a second one, and another dependent
\* has its own key
C18_Witness ==
    /\ MainName \in DOMAIN modules
    /\ Len(modules[MainName]) >= 2
    /\ Cardinality(DOMAIN modules) >= 2

-----------------------------------------------------------------------------
(* C19 *)

\* The head of the queue is an entry with an absent path, the no-source
\* marker or a visited path
SkipAtHead ==
    /\ InLoopHead
    /\ queue # <<>>
    /\ \/ Head(queue).path = NoneV
       \/ Head(queue).path = BuiltIn
       \/ Head(queue).path \in visited

\* C19: dequeuing an entry whose path is absent, is the no-source marker or
\* is already visited is a pure skip, whatever context the entry carries: the
\* entry leaves the queue, the graph and the visited set are unchanged,
\* nothing is enqueued, the file is not classified (no read, no find_spec
\* call, no import to process) and the loop goes on.
C19_PureSkip ==
    [][SkipAtHead =>
         /\ queue' = Tail(queue)
         /\ modules' = modules
         /\ visited' = visited
         /\ classified' = classified
         /\ calls' = calls
         /\ src' = src
         /\ imports' = <<>>
         /\ pc' = "loop"]_vars

\* An entry for a file already classified was skipped though it carries
\* another context than the entry the file was classified with, and an entry
\* with the no-source marker was skipped
C19_Witness ==
    /\ InLoopHead
    /\ cur.path \in visited
    /\ cur \notin Range(classified)
    /\ \E i \in 1..Len(calls) :
         calls[i].put # <<>> /\ calls[i].put[1].path = BuiltIn
    /\ \A i \in 1..Len(queue) : queue[i].path # BuiltIn

-----------------------------------------------------------------------------
(* C20 *)

\* C20: in every state of a run every key of the graph has a non-empty list,
\* and every key other than "__main__" is a dependency in the list of some
\* key: a module gets its own key only after an edge to it was recorded.
C20_KeysHaveEdges ==
    \A d \in DOMAIN modules :
        /\ modules[d] # <<>>
        /\ d # MainName => \E k \in DOMAIN modules : d \in Range(modules[k])

\* The graph has the key of a module that is two edges from "__main__"
C20_Witness ==
    \E d \in DOMAIN modules, k \in DOMAIN modules :
        /\ d # MainName /\ k # MainName /\ k # d
        /\ d \in Range(modules[k])
        /\ d \notin Range(modules[MainName])


====
